---- MODULE Spec2Model ----
(***************************************************************************)
(* Model of openapi3.Reflector (src/openapi3/reflect.go): SetupRequest,    *)
(* SetupResponse and the shared components/schemas map they write.         *)
(*                                                                         *)
(* Strings that the code cuts or concatenates (definition names, content   *)
(* types, HTTP methods, error messages, status keys) are sequences of      *)
(* tokens, so that concatenation is \o and slicing is SubSeq.  A reflected  *)
(* Go type is a record that lists what refl / jsonschema-go report about   *)
(* it: its fields in declaration order with their struct tags.             *)
(***************************************************************************)
EXTENDS Integers, Sequences, FiniteSets, TLC

\* Number of SetupRequest / SetupResponse calls made on the one Reflector.
MaxCalls == 2

(***************************************************************************)
(* Constants of the source.                                                *)
(***************************************************************************)
tagJSON == "json"
tagFormData == "formData"
mimeJSON == <<"application/json">>
mimeFormUrlencoded == <<"application/x-www-form-urlencoded">>
mimeMultipart == <<"multipart/form-data">>
xForbidUnknown == <<"x-forbid-unknown-">>

ParameterInQuery == "query"
ParameterInPath == "path"
ParameterInCookie == "cookie"
ParameterInHeader == "header"

ParameterIns == {ParameterInQuery, ParameterInPath, ParameterInCookie, ParameterInHeader}
AllTags == ParameterIns \cup {tagJSON, tagFormData}

\* A nil map[string]string.
NoMapping == <<>>

\* error values: nil, or an error with a message.
NilErr == [nil |-> TRUE, msg |-> <<>>]
NewError(msg) == [nil |-> FALSE, msg |-> msg]

(***************************************************************************)
(* Reflected Go types.                                                     *)
(***************************************************************************)
NoTags == [t \in AllTags |-> ""]
Tag1(t, n) == [NoTags EXCEPT ![t] = n]
Tag2(t1, n1, t2, n2) == [NoTags EXCEPT ![t1] = n1, ![t2] = n2]

\* ftype: "scalar", "object" (a named struct without json tags), "jsonObject"
\* (a named struct with json tags), "file" (multipart.File / FileHeader),
\* "failing" (a type the reflector returns an error for).
\* ref: the definition name of the field's named struct type, <<>> if none.
\* cf: the collectionFormat tag.  bad: a tag PopulateFieldsFromTags rejects.
\* A type has: elem, the definition name of the element type of a slice or
\* map (<<>> if none); closed, the property-name tags that the `_` field with
\* additionalProperties:"false" carries (parameters are reflected with
\* UnnamedFieldWithTag, so the `_` field counts only under a tag it has).
Fld(goName, tags, ftype, ref) ==
    [goName |-> goName, tags |-> tags, ftype |-> ftype, ref |-> ref,
     cf |-> "", required |-> FALSE, bad |-> FALSE]

Struct(name, fields) ==
    [name |-> name, isNil |-> FALSE, isSliceOrMap |-> FALSE, embeddedSliceOrMap |-> FALSE,
     forceRequestBody |-> FALSE, closed |-> {}, elem |-> <<>>, description |-> "",
     fields |-> fields]

Item == <<"Item">>

\* struct { ID int `path:"id"`; Q []string `query:"q" collectionFormat:"csv"`;
\*          _ struct{} `query:"_" additionalProperties:"false"` }
TGetItem ==
    [Struct(<<"GetItem">>,
        << Fld("ID", Tag1("path", "id"), "scalar", <<>>),
           [Fld("Q", Tag1("query", "q"), "scalar", <<>>) EXCEPT !.cf = "csv"] >>)
     EXCEPT !.closed = {ParameterInQuery}]

\* struct { ID int `path:"id" json:"id"`; Item Item `query:"item" json:"item"` }
\* where Item has query-tagged fields only.
TCreate ==
    Struct(<<"Create">>,
        << Fld("ID", Tag2("path", "id", "json", "id"), "scalar", <<>>),
           Fld("Item", Tag2("query", "item", "json", "item"), "object", Item) >>)

\* struct { P int `query:"p"`; A int `query:"q"`; B int `query:"q"`;
\*          C string `query:"r" header:"h"`; D int `json:"d"` }
TDup ==
    Struct(<<"Dup">>,
        << Fld("P", Tag1("query", "p"), "scalar", <<>>),
           Fld("A", Tag1("query", "q"), "scalar", <<>>),
           Fld("B", Tag1("query", "q"), "scalar", <<>>),
           Fld("C", Tag2("query", "r", "header", "h"), "scalar", <<>>),
           Fld("D", Tag1("json", "d"), "scalar", <<>>) >>)

\* struct { File multipart.File `formData:"file"`; Name string `formData:"name"`;
\*          Meta Item `json:"meta" cookie:"meta"` } where Item has json tags here.
TUpload ==
    Struct(<<"Upload">>,
        << Fld("File", Tag1("formData", "file"), "file", <<>>),
           Fld("Name", Tag1("formData", "name"), "scalar", <<>>),
           Fld("Meta", Tag2("json", "meta", "cookie", "meta"), "jsonObject", Item) >>)

\* struct { Scan multipart.File `json:"scan"`; Name string `formData:"name"` }
TScan ==
    Struct(<<"Scan">>,
        << Fld("Scan", Tag1("json", "scan"), "file", <<>>),
           Fld("Name", Tag1("formData", "name"), "scalar", <<>>) >>)

\* struct { Name string `formData:"name"`; Item Item `formData:"item"` }
TForm ==
    Struct(<<"Form">>,
        << Fld("Name", Tag1("formData", "name"), "scalar", <<>>),
           Fld("Item", Tag1("formData", "item"), "object", Item) >>)

\* Like a plain JSON body, and the type implements RequestBodyEnforcer.
TForced ==
    [Struct(<<"Forced">>,
        << Fld("Q", Tag2("query", "q", "json", "q"), "scalar", <<>>) >>)
     EXCEPT !.forceRequestBody = TRUE]

\* []Item
TList ==
    [Struct(<<>>, << >>) EXCEPT !.isSliceOrMap = TRUE, !.elem = Item]

\* struct { X int `cookie:"x" required:"abc"`; H int `header:"h"`;
\*          Y <failing> `json:"y" formData:"y"` }
TBad ==
    Struct(<<"Bad">>,
        << [Fld("X", Tag1("cookie", "x"), "scalar", <<>>) EXCEPT !.bad = TRUE],
           Fld("H", Tag1("header", "h"), "scalar", <<>>),
           Fld("Y", Tag2("json", "y", "formData", "y"), "failing", <<>>) >>)

InputTypes == {TGetItem, TCreate, TDup, TUpload, TForm, TForced, TList, TBad}

\* Output == nil
TNil == [Struct(<<>>, << >>) EXCEPT !.isNil = TRUE]

\* struct { Item Item `json:"item"`; ETag string `header:"ETag"` }, described.
TResult ==
    [Struct(<<"Result">>,
        << Fld("Item", Tag1("json", "item"), "jsonObject", Item),
           Fld("ETag", Tag1("header", "ETag"), "scalar", <<>>) >>)
     EXCEPT !.description = "the result"]

\* struct { ETag string `header:"ETag"` }: no JSON schema of its own.
THeadersOnly ==
    Struct(<<"HeadersOnly">>,
        << Fld("ETag", Tag1("header", "ETag"), "scalar", <<>>) >>)

\* struct { N int `json:"n"` } named FormDataItem.
TFormDataItem ==
    Struct(<<"FormData", "Item">>,
        << Fld("N", Tag1("json", "n"), "scalar", <<>>) >>)

\* struct { V int `json:"v"`; L string `header:"l" deprecated:"abc"` }
TBadHeader ==
    Struct(<<"BadHeader">>,
        << Fld("V", Tag1("json", "v"), "scalar", <<>>),
           [Fld("L", Tag1("header", "l"), "scalar", <<>>) EXCEPT !.bad = TRUE] >>)

\* struct { Y <failing> `json:"y"` }
TBadBody ==
    Struct(<<"BadBody">>,
        << Fld("Y", Tag1("json", "y"), "failing", <<>>) >>)

OutputTypes == {TNil, TResult, THeadersOnly, TFormDataItem, TBadHeader, TBadBody}


(***************************************************************************)
(* What jsonschema-go and refl report about a type.                        *)
(***************************************************************************)
\* The property name of a field under PropertyNameTag(tag) and
\* PropertyNameMapping(mapping): the mapping, when one is given, names the
\* fields; otherwise the struct tag does.  "" and "-" leave the field out.
PropertyName(f, tag, mapping) ==
    IF DOMAIN mapping # {}
    THEN IF f.goName \in DOMAIN mapping THEN mapping[f.goName] ELSE ""
    ELSE f.tags[tag]

Included(f, tag, mapping) == PropertyName(f, tag, mapping) \notin {"", "-"}

\* refl.HasTaggedFields(input, tag)
HasTaggedFields(input, tag) ==
    \E i \in 1..Len(input.fields) : input.fields[i].tags[tag] # ""

\* The schema the reflector builds for the named type t while it reads
\* property names from `tag` / `mapping`.
Frag(t, tag, mapping) == [type |-> t, tag |-> tag, mapping |-> mapping]

\* Index of the first included field whose type the reflector fails on, 0 if none.
FirstFailing(input, tag, mapping) ==
    LET bad == {i \in 1..Len(input.fields) :
                  /\ Included(input.fields[i], tag, mapping)
                  /\ input.fields[i].ftype = "failing"}
    IN IF bad = {} THEN 0 ELSE CHOOSE i \in bad : \A j \in bad : i <= j

\* Names of the nested named types of the included fields (schema.Definitions
\* without the root).
NestedDefinitions(input, tag, mapping) ==
    {input.fields[i].ref : i \in {j \in 1..Len(input.fields) :
                                    /\ Included(input.fields[j], tag, mapping)
                                    /\ input.fields[j].ref # <<>>}}

ReflectError(f) == NewError(<<"reflect: unsupported type of field ", f.goName>>)
PopulateError(f) == NewError(<<"failed to populate tags of field ", f.goName>>)

(***************************************************************************)
(* Strings.                                                                *)
(***************************************************************************)
UpperOf(c) ==
    CASE c = "a" -> "A" [] c = "c" -> "C" [] c = "d" -> "D" [] c = "e" -> "E"
      [] c = "g" -> "G" [] c = "h" -> "H" [] c = "l" -> "L" [] c = "o" -> "O"
      [] c = "p" -> "P" [] c = "r" -> "R" [] c = "s" -> "S" [] c = "t" -> "T"
      [] OTHER -> c

\* strings.ToUpper
ToUpper(s) == [i \in 1..Len(s) |-> UpperOf(s[i])]

\* strings.Title of a tag
Title(tag) ==
    CASE tag = "formData" -> "FormData"
      [] tag = "json" -> "Json"
      [] OTHER -> tag

MethodGet == <<"G", "E", "T">>
MethodHead == <<"H", "E", "A", "D">>
MethodDelete == <<"D", "E", "L", "E", "T", "E">>
MethodTrace == <<"T", "R", "A", "C", "E">>

\* strings.Split(s, ";")[0]
RECURSIVE BeforeSemicolon(_)
BeforeSemicolon(s) ==
    IF s = <<>> \/ Head(s) = ";" THEN <<>>
    ELSE <<Head(s)>> \o BeforeSemicolon(Tail(s))

Digit(d) ==
    CASE d = 0 -> "0" [] d = 1 -> "1" [] d = 2 -> "2" [] d = 3 -> "3" [] d = 4 -> "4"
      [] d = 5 -> "5" [] d = 6 -> "6" [] d = 7 -> "7" [] d = 8 -> "8" [] d = 9 -> "9"

\* strconv.Itoa
RECURSIVE Itoa(_)
Itoa(n) ==
    IF n < 0 THEN <<"-">> \o Itoa(0 - n)
    ELSE IF n < 10 THEN <<Digit(n)>>
    ELSE Itoa(n \div 10) \o <<Digit(n % 10)>>

\* http.StatusText
StatusText(code) ==
    CASE code = 200 -> "OK"
      [] code = 204 -> "No Content"
      [] code = 400 -> "Bad Request"
      [] OTHER -> ""

(***************************************************************************)
(* joinErrors                                                              *)
(***************************************************************************)
RECURSIVE JoinFrom(_, _)
JoinFrom(errs, join) ==
    IF errs = <<>> THEN join
    ELSE JoinFrom(Tail(errs),
                  IF Head(errs).nil THEN join
                  ELSE join \o <<",", " ">> \o Head(errs).msg)

\* Returns the first error alone.
joinErrorsFirstOnly(errs) ==
    LET bad == {i \in 1..Len(errs) : ~errs[i].nil}
    IN IF bad = {} THEN NilErr ELSE errs[CHOOSE i \in bad : \A j \in bad : i <= j]

joinErrors(errs) ==
    LET join == JoinFrom(errs, <<>>)
    IN IF join # <<>> THEN NewError(SubSeq(join, 3, Len(join))) ELSE NilErr

(***************************************************************************)
(* The components/schemas map.                                             *)
(***************************************************************************)
\* Schemas.WithMapOfSchemaOrRefValuesItem(name, s)
WithMapOfSchemaOrRefValuesItem(m, name, s) == (name :> s) @@ m

\* Finds no entry.
ExistsNever(m, name) == FALSE

\* _, exists := ...MapOfSchemaOrRefValues[name]
Exists(m, name) == name \in DOMAIN m

collectDefinition(m, name, s) ==
    IF Exists(m, name) THEN m
    ELSE WithMapOfSchemaOrRefValuesItem(m, name, s)

\* CollectDefinitions(r.collectDefinition) over the definitions of one Reflect call.
RECURSIVE CollectAll(_, _, _, _)
CollectAll(m, names, tag, mapping) ==
    IF names = {} THEN m
    ELSE LET n == CHOOSE x \in names : TRUE
         IN CollectAll(collectDefinition(m, n, Frag(n, tag, mapping)),
                       names \ {n}, tag, mapping)

(***************************************************************************)
(* parseParametersIn                                                       *)
(***************************************************************************)
DuplicateError(name, in) ==
    NewError(<<"parameter ", name, " in ", in, " is already defined">>)

\* Never finds the parameter.
AlreadyExistsNever(params, in, name) == FALSE

\* Looks at the last parameter only.
AlreadyExistsLastOnly(params, in, name) ==
    /\ params # <<>>
    /\ params[Len(params)].in = in
    /\ params[Len(params)].name = name

\* The loop over o.Parameters that sets alreadyExists.
AlreadyExists(params, in, name) ==
    \E i \in 1..Len(params) : params[i].in = in /\ params[i].name = name

\* The Parameter the InterceptProperty callback builds for field f.
NewParameter(f, name, in) ==
    LET styled ==
            CASE f.cf = "csv" -> [style |-> "form", explode |-> "false"]
              [] f.cf = "ssv" -> [style |-> "spaceDelimited", explode |-> "false"]
              [] f.cf = "pipes" -> [style |-> "pipeDelimited", explode |-> "false"]
              [] f.cf = "multi" -> [style |-> "form", explode |-> "true"]
              [] OTHER -> [style |-> "", explode |-> ""]
        shaped ==
            IF f.ftype = "jsonObject" THEN styled
            ELSE IF f.ftype = "object" THEN [style |-> "deepObject", explode |-> "true"]
            ELSE styled
    IN [name |-> name, in |-> in,
        content |-> (f.ftype = "jsonObject"),
        style |-> shaped.style, explode |-> shaped.explode,
        required |-> (f.required \/ in = ParameterInPath)]

\* The InterceptProperty callback of parseParametersIn on field f, acting on
\* the operation's parameter list and on the schemas map.
InterceptParameter(f, name, in, params, m) ==
    LET m1 == IF f.ftype = "jsonObject"
              THEN collectDefinition(m, f.ref, Frag(f.ref, tagJSON, NoMapping))
              ELSE m
    IN IF f.bad
       THEN [parameters |-> params, schemas |-> m1, err |-> PopulateError(f)]
       ELSE IF AlreadyExists(params, in, name)
       THEN [parameters |-> params, schemas |-> m1, err |-> DuplicateError(name, in)]
       ELSE [parameters |-> Append(params, NewParameter(f, name, in)),
             schemas |-> m1, err |-> NilErr]

\* Walks on after an error of the callback.
RECURSIVE WalkParametersNoAbort(_, _, _, _, _, _)
WalkParametersNoAbort(fields, i, in, mapping, params, m) ==
    IF i > Len(fields) THEN [parameters |-> params, schemas |-> m, err |-> NilErr]
    ELSE LET f == fields[i]
         IN IF ~Included(f, in, mapping) \/ f.ftype = "failing"
            THEN WalkParametersNoAbort(fields, i + 1, in, mapping, params, m)
            ELSE LET r == InterceptParameter(f, PropertyName(f, in, mapping), in, params, m)
                     rest == WalkParametersNoAbort(fields, i + 1, in, mapping,
                                                   r.parameters, r.schemas)
                 IN IF r.err.nil THEN rest ELSE [rest EXCEPT !.err = r.err]

\* The reflector's walk over the fields from index i on: it stops at the
\* first field it fails on and at the first error of the callback.
RECURSIVE WalkParameters(_, _, _, _, _, _)
WalkParameters(fields, i, in, mapping, params, m) ==
    IF i > Len(fields) THEN [parameters |-> params, schemas |-> m, err |-> NilErr]
    ELSE LET f == fields[i]
         IN IF ~Included(f, in, mapping)
            THEN WalkParameters(fields, i + 1, in, mapping, params, m)
            ELSE IF f.ftype = "failing"
            THEN [parameters |-> params, schemas |-> m, err |-> ReflectError(f)]
            ELSE LET r == InterceptParameter(f, PropertyName(f, in, mapping), in, params, m)
                 IN IF ~r.err.nil THEN r
                    ELSE WalkParameters(fields, i + 1, in, mapping, r.parameters, r.schemas)

\* parseParametersIn(oc, in, propertyMapping) on the operation (parameters,
\* extensions) and the schemas map.
parseParametersIn(input, in, mapping, params, ext, m) ==
    IF input.isSliceOrMap
    THEN [parameters |-> params, extensions |-> ext, schemas |-> m, err |-> NilErr]
    ELSE LET w == WalkParameters(input.fields, 1, in, mapping, params, m)
         IN IF ~w.err.nil
            THEN [parameters |-> w.parameters, extensions |-> ext,
                  schemas |-> w.schemas, err |-> w.err]
            ELSE [parameters |-> w.parameters,
                  extensions |-> IF in \in input.closed
                                 THEN ext \cup {xForbidUnknown \o <<in>>}
                                 ELSE ext,
                  schemas |-> CollectAll(w.schemas,
                                         NestedDefinitions(input, in, mapping),
                                         in, mapping),
                  err |-> NilErr]

(***************************************************************************)
(* parseRequestBody                                                        *)
(***************************************************************************)
\* Compares the method as given.
BodilessCaseSensitive(httpMethod) ==
    httpMethod \in {MethodGet, MethodHead, MethodDelete, MethodTrace}

\* The switch on the upper-cased method.
Bodiless(httpMethod) ==
    ToUpper(httpMethod) \in {MethodGet, MethodHead, MethodDelete, MethodTrace}

\* The InterceptType callback sets hasFileUpload on a multipart.File(Header).
HasFileUpload(input, tag, mapping) ==
    \E i \in 1..Len(input.fields) :
        Included(input.fields[i], tag, mapping) /\ input.fields[i].ftype = "file"

\* Upgrades whatever the encoding is.
ResolveMimeAnyEncoding(mime, hasFileUpload) ==
    IF hasFileUpload THEN mimeMultipart ELSE mime

\* The mime type the content entry is written under.
ResolveMime(mime, hasFileUpload) ==
    IF mime = mimeFormUrlencoded /\ hasFileUpload THEN mimeMultipart ELSE mime

\* for name, def := range schema.Definitions { ...WithMapOfSchemaOrRefValuesItem }
RECURSIVE PublishAll(_, _, _, _, _)
PublishAll(m, names, prefix, tag, mapping) ==
    IF names = {} THEN m
    ELSE LET n == CHOOSE x \in names : TRUE
         IN PublishAll(WithMapOfSchemaOrRefValuesItem(m, prefix \o n, Frag(n, tag, mapping)),
                       names \ {n}, prefix, tag, mapping)

\* schema.Definitions of the RootRef reflection: the root and the nested types.
BodyDefinitions(input, tag, mapping) ==
    (IF input.name # <<>> THEN {input.name} ELSE {})
        \cup (IF input.elem # <<>> THEN {input.elem} ELSE {})
        \cup NestedDefinitions(input, tag, mapping)

\* parseRequestBody(oc, tag, mime, httpMethod, mapping) on the operation's
\* request body content and the schemas map.
parseRequestBody(input, tag, mime, httpMethod, mapping, body, m) ==
    LET unchanged == [requestBody |-> body, schemas |-> m, err |-> NilErr]
        hasTaggedFields == HasTaggedFields(input, tag)
        definitionPrefix == IF tag # tagJSON THEN <<Title(tag)>> ELSE <<>>
        failing == FirstFailing(input, tag, mapping)
        root == IF input.name # <<>>
                THEN [kind |-> "ref", name |-> definitionPrefix \o input.name]
                ELSE [kind |-> "inline", name |-> <<>>]
    IN IF Bodiless(httpMethod) /\ ~input.forceRequestBody THEN unchanged
       ELSE IF ~hasTaggedFields /\ DOMAIN mapping = {} /\ tag # tagJSON THEN unchanged
       ELSE IF /\ ~hasTaggedFields /\ DOMAIN mapping = {}
               /\ ~input.isSliceOrMap /\ ~input.embeddedSliceOrMap THEN unchanged
       ELSE IF failing # 0
       THEN [unchanged EXCEPT !.err = ReflectError(input.fields[failing])]
       ELSE [requestBody |->
                 (ResolveMime(mime, HasFileUpload(input, tag, mapping)) :> [schema |-> root])
                     @@ body,
             schemas |-> PublishAll(m, BodyDefinitions(input, tag, mapping),
                                    definitionPrefix, tag, mapping),
             err |-> NilErr]

(***************************************************************************)
(* SetupResponse                                                           *)
(***************************************************************************)
EmptyResponse == [description |-> "", content |-> <<>>, headers |-> <<>>, hasHeaders |-> FALSE]

EmptySchema == [kind |-> "empty", name |-> <<>>]

\* hasJSONBody(output)
hasJSONBody(output) ==
    LET failing == FirstFailing(output, tagJSON, NoMapping)
    IN IF failing # 0
       THEN [has |-> FALSE, err |-> ReflectError(output.fields[failing])]
       ELSE [has |-> \/ output.isSliceOrMap
                     \/ output.embeddedSliceOrMap
                     \/ \E i \in 1..Len(output.fields) :
                            Included(output.fields[i], tagJSON, NoMapping),
             err |-> NilErr]

\* parseJSONResponse(&resp, oc)
parseJSONResponse(resp, output, contentType, m) ==
    LET h == hasJSONBody(output)
        ct == IF contentType = <<>> THEN mimeJSON ELSE contentType
        root == IF output.name # <<>>
                THEN [kind |-> "ref", name |-> output.name]
                ELSE [kind |-> "inline", name |-> <<>>]
    IN IF h.err.nil /\ ~h.has THEN [resp |-> resp, schemas |-> m, err |-> NilErr]
       ELSE IF ~h.err.nil THEN [resp |-> resp, schemas |-> m, err |-> h.err]
       ELSE [resp |-> [resp EXCEPT
                          !.content = (ct :> [schema |-> root]) @@ resp.content,
                          !.description = IF output.description # "" /\ resp.description = ""
                                          THEN output.description
                                          ELSE resp.description],
             schemas |-> CollectAll(m, BodyDefinitions(output, tagJSON, NoMapping),
                                    tagJSON, NoMapping),
             err |-> NilErr]

\* The header map the InterceptProperty callback of parseResponseHeader fills.
RECURSIVE WalkHeaders(_, _, _, _)
WalkHeaders(fields, i, mapping, res) ==
    IF i > Len(fields) THEN [headers |-> res, err |-> NilErr]
    ELSE LET f == fields[i]
         IN IF ~Included(f, "header", mapping) THEN WalkHeaders(fields, i + 1, mapping, res)
            ELSE IF f.ftype = "failing" THEN [headers |-> res, err |-> ReflectError(f)]
            ELSE IF f.bad THEN [headers |-> res, err |-> PopulateError(f)]
            ELSE WalkHeaders(fields, i + 1, mapping,
                             (PropertyName(f, "header", mapping) :> [schema |-> "inline"])
                                 @@ res)

\* parseResponseHeader(&resp, oc)
parseResponseHeader(resp, output, mapping) ==
    LET w == WalkHeaders(output.fields, 1, mapping, <<>>)
    IN IF ~w.err.nil THEN [resp |-> resp, err |-> w.err]
       ELSE [resp |-> [resp EXCEPT
                          !.headers = w.headers,
                          !.hasHeaders = TRUE,
                          !.description = IF output.description # "" /\ resp.description = ""
                                          THEN output.description
                                          ELSE resp.description],
             err |-> NilErr]

\* ensureResponseContentType(&resp, contentType)
ensureResponseContentType(resp, contentType) ==
    IF contentType \in DOMAIN resp.content THEN resp
    ELSE [resp EXCEPT !.content = (contentType :> [schema |-> EmptySchema]) @@ resp.content]

\* Keeps the last digit only.
StatusKeyLastDigit(httpStatus) == <<Digit(httpStatus % 10)>>

\* The key of the response map.
StatusKey(httpStatus) == Itoa(httpStatus)

\* SetupResponse(oc) on the operation's response map and the schemas map.
SetupResponseResult(output, httpStatus, respContentType, mapping, resps, m) ==
    LET ct == BeforeSemicolon(respContentType)
        b == parseJSONResponse(EmptyResponse, output, ct, m)
        h == parseResponseHeader(b.resp, output, mapping)
        e == IF ct # <<>> THEN ensureResponseContentType(h.resp, ct) ELSE h.resp
        Store(resp, mm) ==
            [responses |->
                 (StatusKey(httpStatus) :>
                     [resp EXCEPT !.description =
                          IF resp.description = "" THEN StatusText(httpStatus)
                          ELSE resp.description]) @@ resps,
             schemas |-> mm, err |-> NilErr]
    IN IF output.isNil THEN Store(EmptyResponse, m)
       ELSE IF ~b.err.nil THEN [responses |-> resps, schemas |-> m, err |-> b.err]
       ELSE IF ~h.err.nil THEN [responses |-> resps, schemas |-> b.schemas, err |-> h.err]
       ELSE Store(e, b.schemas)

(***************************************************************************)
(* State.                                                                  *)
(***************************************************************************)
VARIABLES
    parameters,   \* o.Parameters
    requestBody,  \* o.RequestBody content, by mime type
    extensions,   \* keys of o.MapOfAnything set to true
    responses,    \* o.Responses, by status key
    schemas,      \* r.Spec.Components.Schemas
    pc,           \* position of the running call: "idle" between calls
    kind,         \* the call that runs or ran last: "none", "request", "response"
    oc,           \* its OperationContext
    errs,         \* the arguments of joinErrors evaluated so far
    ret,          \* the error the last finished call returned
    calls,        \* calls started
    repeated,     \* the running or last call repeats the SetupRequest before it
    before,       \* the operation and the schemas when a repeated call started
    cSchemas,     \* concurrent builds: the shared schemas map
    cMode,        \* "locked": the caller serialises builds under one lock
    cLock,        \* holder of the caller's lock, 0 when free
    cWork,        \* per goroutine, the definitions its build still collects
    cPc,          \* per goroutine: "start", "check", "init", "insert", "finish", "done"
    cSpecSet,     \* r.Spec (with its Components, Schemas and map) is not nil
    cFirst,       \* per name, the schema first stored under it
    cCrashed      \* the runtime stopped the program on a concurrent map write

seqVars == <<parameters, requestBody, extensions, responses, schemas, pc, kind, oc,
             errs, ret, calls, repeated, before>>
concVars == <<cSchemas, cMode, cLock, cWork, cPc, cSpecSet, cFirst, cCrashed>>
vars == <<parameters, requestBody, extensions, responses, schemas, pc, kind, oc,
          errs, ret, calls, repeated, before,
          cSchemas, cMode, cLock, cWork, cPc, cSpecSet, cFirst, cCrashed>>

MethodPost == <<"P", "O", "S", "T">>
MethodGetLower == <<"g", "e", "t">>
MethodHeadMixed == <<"H", "e", "a", "d">>
MethodTraceLower == <<"t", "r", "a", "c", "e">>

QueryMapping == ("ID" :> "id") @@ ("Q" :> "id")
FormMapping == ("ID" :> "id") @@ ("Name" :> "name")

Statuses == {200, 204}
ContentTypes == {<<>>, <<"text/csv">>, <<"text/csv", ";", " charset=utf-8">>}

OperationContext(input, method, qm, fm, output, status, ct) ==
    [Input |-> input, HTTPMethod |-> method,
     ReqQueryMapping |-> qm, ReqPathMapping |-> NoMapping,
     ReqCookieMapping |-> NoMapping, ReqHeaderMapping |-> NoMapping,
     ReqFormDataMapping |-> fm,
     Output |-> output, HTTPStatus |-> status, RespContentType |-> ct,
     RespHeaderMapping |-> NoMapping]

Request(input, method, qm, fm) == OperationContext(input, method, qm, fm, TNil, 0, <<>>)
Response(output, status, ct) ==
    OperationContext(TNil, <<>>, NoMapping, NoMapping, output, status, ct)

Methods ==
    {MethodPost, MethodGet, MethodGetLower, MethodHeadMixed, MethodDelete, MethodTraceLower}

\* The calls a caller makes: every input type under every method without
\* name mappings, a POST of the type whose file field is a JSON property, and
\* three calls with a name mapping.
RequestContexts ==
    {Request(t, m, NoMapping, NoMapping) : t \in InputTypes, m \in Methods}
    \cup {Request(TScan, MethodPost, NoMapping, NoMapping),
          Request(TGetItem, MethodPost, QueryMapping, NoMapping),
          Request(TUpload, MethodPost, NoMapping, FormMapping),
          Request(TGetItem, MethodGetLower, NoMapping, FormMapping)}

ResponseContexts ==
    {Response(o, s, ct) : o \in OutputTypes, s \in Statuses, ct \in ContentTypes}

Snapshot ==
    [parameters |-> parameters, requestBody |-> requestBody,
     extensions |-> extensions, schemas |-> schemas]
NoSnapshot ==
    [parameters |-> <<>>, requestBody |-> <<>>, extensions |-> {}, schemas |-> <<>>]

ConcIdle ==
    /\ cSchemas = <<>>
    /\ cMode = "locked"
    /\ cLock = 0
    /\ cWork = <<<<>>, <<>>>>
    /\ cPc = <<"done", "done">>
    /\ cSpecSet = FALSE
    /\ cFirst = <<>>
    /\ cCrashed = FALSE

SeqIdle ==
    /\ parameters = <<>>
    /\ requestBody = <<>>
    /\ extensions = {}
    /\ responses = <<>>
    /\ schemas = <<>>
    /\ pc = "idle"
    /\ kind = "none"
    /\ oc = Request(TNil, <<>>, NoMapping, NoMapping)
    /\ errs = <<>>
    /\ ret = NilErr
    /\ calls = 0
    /\ repeated = FALSE
    /\ before = NoSnapshot

\* A Reflector with an empty Spec and an Operation without parameters.
Init == SeqIdle /\ ConcIdle

(***************************************************************************)
(* SetupRequest: its six arguments are evaluated in order, then joined.    *)
(***************************************************************************)
MappingOf(in) ==
    CASE in = ParameterInQuery -> oc.ReqQueryMapping
      [] in = ParameterInPath -> oc.ReqPathMapping
      [] in = ParameterInCookie -> oc.ReqCookieMapping
      [] in = ParameterInHeader -> oc.ReqHeaderMapping

\* The argument evaluated after the one for `step`.
NextStep(step) ==
    CASE step = ParameterInQuery -> ParameterInPath
      [] step = ParameterInPath -> ParameterInCookie
      [] step = ParameterInCookie -> ParameterInHeader
      [] step = ParameterInHeader -> tagJSON
      [] step = tagJSON -> tagFormData
      [] step = tagFormData -> "join"

\* The caller calls SetupRequest.
CallSetupRequest ==
    /\ pc = "idle"
    /\ calls < MaxCalls
    /\ \E c \in RequestContexts :
         /\ oc' = c
         /\ repeated' = (kind = "request" /\ c = oc)
         /\ before' = IF kind = "request" /\ c = oc THEN Snapshot ELSE NoSnapshot
    /\ kind' = "request"
    /\ pc' = ParameterInQuery
    /\ errs' = <<>>
    /\ calls' = calls + 1
    /\ UNCHANGED <<parameters, requestBody, extensions, responses, schemas, ret>>
    /\ UNCHANGED concVars

\* r.parseParametersIn(oc, in, mapping) for the location pc names.
ParseParametersStep ==
    /\ pc \in ParameterIns
    /\ LET r == parseParametersIn(oc.Input, pc, MappingOf(pc),
                                  parameters, extensions, schemas)
       IN /\ parameters' = r.parameters
          /\ extensions' = r.extensions
          /\ schemas' = r.schemas
          /\ errs' = Append(errs, r.err)
    /\ pc' = NextStep(pc)
    /\ UNCHANGED <<requestBody, responses, kind, oc, ret, calls, repeated, before>>
    /\ UNCHANGED concVars

\* r.parseRequestBody(oc, tagJSON, mimeJSON, oc.HTTPMethod, nil)
ParseRequestBodyJSON ==
    /\ pc = tagJSON
    /\ LET r == parseRequestBody(oc.Input, tagJSON, mimeJSON, oc.HTTPMethod, NoMapping,
                                 requestBody, schemas)
       IN /\ requestBody' = r.requestBody
          /\ schemas' = r.schemas
          /\ errs' = Append(errs, r.err)
    /\ pc' = NextStep(pc)
    /\ UNCHANGED <<parameters, extensions, responses, kind, oc, ret, calls, repeated, before>>
    /\ UNCHANGED concVars

\* r.parseRequestBody(oc, tagFormData, mimeFormUrlencoded, oc.HTTPMethod,
\*                    oc.ReqFormDataMapping)
ParseRequestBodyForm ==
    /\ pc = tagFormData
    /\ LET r == parseRequestBody(oc.Input, tagFormData, mimeFormUrlencoded, oc.HTTPMethod,
                                 oc.ReqFormDataMapping, requestBody, schemas)
       IN /\ requestBody' = r.requestBody
          /\ schemas' = r.schemas
          /\ errs' = Append(errs, r.err)
    /\ pc' = NextStep(pc)
    /\ UNCHANGED <<parameters, extensions, responses, kind, oc, ret, calls, repeated, before>>
    /\ UNCHANGED concVars

\* return joinErrors(...)
ReturnSetupRequest ==
    /\ pc = "join"
    /\ ret' = joinErrors(errs)
    /\ pc' = "idle"
    /\ UNCHANGED <<parameters, requestBody, extensions, responses, schemas, kind, oc,
                   errs, calls, repeated, before>>
    /\ UNCHANGED concVars

\* The caller calls SetupResponse, which runs to its return.
SetupResponse ==
    /\ pc = "idle"
    /\ calls < MaxCalls
    /\ \E c \in ResponseContexts :
         LET r == SetupResponseResult(c.Output, c.HTTPStatus, c.RespContentType,
                                      c.RespHeaderMapping, responses, schemas)
         IN /\ oc' = c
            /\ responses' = r.responses
            /\ schemas' = r.schemas
            /\ ret' = r.err
    /\ kind' = "response"
    /\ errs' = <<>>
    /\ calls' = calls + 1
    /\ repeated' = FALSE
    /\ before' = NoSnapshot
    /\ UNCHANGED <<parameters, requestBody, extensions, pc>>
    /\ UNCHANGED concVars

Next ==
    \/ CallSetupRequest
    \/ ParseParametersStep
    \/ ParseRequestBodyJSON
    \/ ParseRequestBodyForm
    \/ ReturnSetupRequest
    \/ SetupResponse

Spec == Init /\ [][Next]_vars

(***************************************************************************)
(* Two builds on one document from two goroutines.  Each build calls       *)
(* collectDefinition for the definitions of its reflection; the lookup and *)
(* the insert of collectDefinition are two steps.  Goroutine 1 reflects     *)
(* under the query tag (SetupRequest), goroutine 2 under the json tag      *)
(* (SetupResponse).  An unsynchronised write to a Go map while another     *)
(* goroutine is using it is a data race: the write may land, or the        *)
(* runtime may stop the program.  SpecEns, ComponentsEns, SchemasEns and   *)
(* the map's creation are lazy and unsynchronised as well: a goroutine     *)
(* that saw nil installs a fresh, empty container later, and what was      *)
(* inserted into the container it replaces is lost.  The four levels are   *)
(* one container here.                                                     *)
(***************************************************************************)
Order == <<"Order">>
Goroutines == {1, 2}
Other(p) == 3 - p
TagOf(p) == IF p = 1 THEN ParameterInQuery ELSE tagJSON

WorkLists == {<<Item>>, <<Order>>, <<Item, Order>>, <<Order, Item>>}

InitConc ==
    /\ SeqIdle
    /\ cSchemas = <<>>
    /\ cMode \in {"locked", "unlocked"}
    /\ cLock = 0
    /\ cWork \in {<<a, b>> : a \in WorkLists, b \in WorkLists}
    /\ cPc = <<"start", "start">>
    /\ cSpecSet \in BOOLEAN
    /\ cFirst = <<>>
    /\ cCrashed = FALSE

\* After one collectDefinition call returns.
Advance(p) ==
    /\ cWork' = [cWork EXCEPT ![p] = Tail(cWork[p])]
    /\ cPc' = [cPc EXCEPT ![p] = IF Tail(cWork[p]) = <<>> THEN "finish" ELSE "check"]

\* The caller takes its lock before the build.
Acquire(p) ==
    /\ cMode = "locked"
    /\ cPc[p] = "start"
    /\ cLock = 0
    /\ cLock' = p
    /\ cPc' = [cPc EXCEPT ![p] = "check"]
    /\ UNCHANGED <<cSchemas, cMode, cWork, cSpecSet, cFirst, cCrashed>>
    /\ UNCHANGED seqVars

\* The caller starts the build without a lock.
StartUnlocked(p) ==
    /\ cMode = "unlocked"
    /\ cPc[p] = "start"
    /\ cPc' = [cPc EXCEPT ![p] = "check"]
    /\ UNCHANGED <<cSchemas, cMode, cLock, cWork, cSpecSet, cFirst, cCrashed>>
    /\ UNCHANGED seqVars

\* collectDefinition: if _, exists := r.SpecEns()...[name]; exists { return }
\* SpecEns reads r.Spec: when it is nil the goroutine goes on to install one.
CollectCheck(p) ==
    /\ ~cCrashed
    /\ cPc[p] = "check"
    /\ IF ~cSpecSet
       THEN cPc' = [cPc EXCEPT ![p] = "init"] /\ UNCHANGED cWork
       ELSE IF Exists(cSchemas, Head(cWork[p]))
       THEN Advance(p)
       ELSE cPc' = [cPc EXCEPT ![p] = "insert"] /\ UNCHANGED cWork
    /\ UNCHANGED <<cSchemas, cMode, cLock, cSpecSet, cFirst, cCrashed>>
    /\ UNCHANGED seqVars

\* SpecEns: r.Spec = &Spec{...}, after the goroutine saw r.Spec == nil; the
\* lookup then reads the container r.Spec points to.
SpecEns(p) ==
    /\ ~cCrashed
    /\ cPc[p] = "init"
    /\ cSpecSet' = TRUE
    /\ cSchemas' = <<>>
    /\ cPc' = [cPc EXCEPT ![p] = "check"]
    /\ UNCHANGED <<cMode, cLock, cWork, cFirst, cCrashed>>
    /\ UNCHANGED seqVars

\* collectDefinition: ...WithMapOfSchemaOrRefValuesItem(name, s)
CollectInsert(p) ==
    /\ ~cCrashed
    /\ cPc[p] = "insert"
    /\ LET name == Head(cWork[p])
           s == Frag(name, TagOf(p), NoMapping)
       IN /\ cSchemas' = WithMapOfSchemaOrRefValuesItem(cSchemas, name, s)
          /\ cFirst' = IF name \in DOMAIN cFirst THEN cFirst ELSE (name :> s) @@ cFirst
    /\ Advance(p)
    /\ UNCHANGED <<cMode, cLock, cSpecSet, cCrashed>>
    /\ UNCHANGED seqVars

\* The map write races with the other goroutine's use of the map and the
\* runtime reports "concurrent map writes".
CrashOnRace(p) ==
    /\ ~cCrashed
    /\ cPc[p] = "insert"
    /\ cPc[Other(p)] \in {"check", "init", "insert"}
    /\ cCrashed' = TRUE
    /\ UNCHANGED <<cSchemas, cMode, cLock, cWork, cPc, cSpecSet, cFirst>>
    /\ UNCHANGED seqVars

\* The build returns; the caller releases its lock if it holds it.
Finish(p) ==
    /\ ~cCrashed
    /\ cPc[p] = "finish"
    /\ cPc' = [cPc EXCEPT ![p] = "done"]
    /\ cLock' = IF cLock = p THEN 0 ELSE cLock
    /\ UNCHANGED <<cSchemas, cMode, cWork, cSpecSet, cFirst, cCrashed>>
    /\ UNCHANGED seqVars

NextConc ==
    \E p \in Goroutines :
        \/ Acquire(p)
        \/ StartUnlocked(p)
        \/ CollectCheck(p)
        \/ SpecEns(p)
        \/ CollectInsert(p)
        \/ CrashOnRace(p)
        \/ Finish(p)

SpecConc == InitConc /\ [][NextConc]_vars

(***************************************************************************)
(* Properties.                                                             *)
(***************************************************************************)
IsDuplicateError(e) ==
    /\ ~e.nil
    /\ Len(e.msg) = 5
    /\ e.msg[1] = "parameter "
    /\ e.msg[5] = " is already defined"

\* small occurs in big as a run of consecutive tokens.
Contains(big, small) ==
    \E i \in 1..(Len(big) - Len(small) + 1) : SubSeq(big, i, i + Len(small) - 1) = small

DigitValue(c) ==
    CASE c = "0" -> 0 [] c = "1" -> 1 [] c = "2" -> 2 [] c = "3" -> 3 [] c = "4" -> 4
      [] c = "5" -> 5 [] c = "6" -> 6 [] c = "7" -> 7 [] c = "8" -> 8 [] c = "9" -> 9
      [] OTHER -> 0 - 1

\* key is the decimal numeral of n (n >= 0), without sign or padding.
RECURSIVE IsDecimalOf(_, _)
IsDecimalOf(key, n) ==
    /\ key # <<>>
    /\ DigitValue(key[Len(key)]) = n % 10
    /\ IF n < 10 THEN Len(key) = 1
       ELSE IsDecimalOf(SubSeq(key, 1, Len(key) - 1), n \div 10)

RequestDone == kind = "request" /\ pc = "idle"
ResponseDone == kind = "response" /\ pc = "idle"

\* C1: every write to components/schemas, from any builder, leaves the entry
\* of a name that is already present as it is (first write wins).
C1_FirstWriteWins ==
    [][\A n \in DOMAIN schemas : n \in DOMAIN schemas' /\ schemas'[n] = schemas[n]]_vars

\* C2: no two parameters of the operation share the same (location, name).
C2_UniqueParameters ==
    \A i, j \in 1..Len(parameters) :
        (parameters[i].in = parameters[j].in /\ parameters[i].name = parameters[j].name)
            => i = j

\* C2 witness: a call met parameters that were already in the list and the list
\* holds parameters of several locations.
C2_Witness ==
    /\ RequestDone
    /\ \E i \in 1..Len(errs) : IsDuplicateError(errs[i])
    /\ \E i, j \in 1..Len(parameters) : parameters[i].in # parameters[j].in

\* C3: a parameter step that ends on a duplicate names the duplicate and its
\* location in the error, appends exactly the fields before the duplicate and
\* keeps every parameter that was in the list.
C3_DuplicateAborts ==
    [][(pc \in ParameterIns /\ Len(errs') = Len(errs) + 1 /\ IsDuplicateError(errs'[Len(errs')]))
        =>
        LET fields == oc.Input.fields
            Name(i) == PropertyName(fields[i], pc, MappingOf(pc))
            Inc == {i \in 1..Len(fields) : Included(fields[i], pc, MappingOf(pc))}
            Collides(i) ==
                \/ \E q \in 1..Len(parameters) :
                       parameters[q].in = pc /\ parameters[q].name = Name(i)
                \/ \E j \in Inc : j < i /\ Name(j) = Name(i)
            Colliding == {i \in Inc : Collides(i)}
            k == CHOOSE i \in Colliding : \A j \in Colliding : i <= j
            Added == {q \in 1..Len(parameters') : q > Len(parameters)}
        IN /\ Colliding # {}
           /\ errs'[Len(errs')].msg[2] = Name(k)
           /\ errs'[Len(errs')].msg[4] = pc
           /\ Len(parameters') >= Len(parameters)
           /\ SubSeq(parameters', 1, Len(parameters)) = parameters
           /\ Cardinality(Added) = Cardinality({i \in Inc : i < k})
           /\ {parameters'[q].name : q \in Added} = {Name(i) : i \in {j \in Inc : j < k}}
           /\ \A q \in Added : parameters'[q].in = pc
      ]_vars

\* C3 witness: the query step of a call stopped on the duplicate "q" after
\* it had appended "p", and "r", the field after the duplicate, is absent.
C3_Witness ==
    /\ kind = "request"
    /\ pc = ParameterInPath
    /\ errs = <<DuplicateError("q", ParameterInQuery)>>
    /\ \E i \in 1..Len(parameters) : parameters[i].name = "p"
    /\ \E i \in 1..Len(parameters) : parameters[i].name = "q"
    /\ \A i \in 1..Len(parameters) : parameters[i].name # "r"

HasParameterField(input) ==
    /\ ~input.isSliceOrMap
    /\ \E in \in ParameterIns, i \in 1..Len(input.fields) :
           Included(input.fields[i], in, MappingOf(in))

\* C4 as stated: a repeated SetupRequest returns no error and leaves the
\* operation and the schemas as the first call left them.
C4_RepeatSucceeds ==
    (RequestDone /\ repeated) => (ret.nil /\ Snapshot = before)

\* C4 amended: a repeated SetupRequest leaves the operation and the schemas
\* as the first call left them, and returns an error whenever the input has
\* a field in one of the four parameter locations.
C4_RepeatKeepsState ==
    (RequestDone /\ repeated) =>
        /\ Snapshot = before
        /\ HasParameterField(oc.Input) => ~ret.nil

\* C4 witness: a repeated call returned the already-defined error on an
\* operation that has parameters and a request body.
C4_Witness ==
    /\ RequestDone
    /\ repeated
    /\ parameters # <<>>
    /\ requestBody # <<>>
    /\ schemas # <<>>
    /\ ~ret.nil

\* The spellings of GET, HEAD, DELETE and TRACE the callers use.
BodilessSpellings ==
    {<<"G", "E", "T">>, <<"g", "e", "t">>, <<"H", "e", "a", "d">>,
     <<"D", "E", "L", "E", "T", "E">>, <<"t", "r", "a", "c", "e">>}

\* C5: for GET, HEAD, DELETE or TRACE in any letter case and an input that
\* does not force a request body, neither body step writes a content entry
\* or a schema.
C5_BodilessNoBody ==
    [][(/\ pc \in {tagJSON, tagFormData}
        /\ oc.HTTPMethod \in BodilessSpellings
        /\ ~oc.Input.forceRequestBody)
       => (requestBody' = requestBody /\ schemas' = schemas)]_vars

\* C5 witness: both body steps have run for a lower-case "get" on an input with
\* json tags, or with a form name mapping, and there is no request body.
C5_Witness ==
    /\ kind = "request"
    /\ pc = "join"
    /\ oc.HTTPMethod = <<"g", "e", "t">>
    /\ HasTaggedFields(oc.Input, tagJSON) \/ DOMAIN oc.ReqFormDataMapping # {}
    /\ ~oc.Input.forceRequestBody
    /\ requestBody = <<>>

LocationOrder == <<ParameterInQuery, ParameterInPath, ParameterInCookie, ParameterInHeader>>

\* C6: SetupRequest runs all six steps in order whatever they return; it
\* returns nil exactly when every step returned nil, and otherwise an error
\* that contains the message of every failed step.
C6_AllStepsJoined ==
    RequestDone =>
        /\ Len(errs) = 6
        /\ \A i \in 1..4 : IsDuplicateError(errs[i]) => errs[i].msg[4] = LocationOrder[i]
        /\ ret.nil <=> \A i \in 1..6 : errs[i].nil
        /\ \A i \in 1..6 : ~errs[i].nil => (~ret.nil /\ Contains(ret.msg, errs[i].msg))

\* C6 witness: the query step failed, the header step after it added its
\* parameter, the JSON step wrote the body, and two steps' errors are joined.
C6_Witness ==
    /\ RequestDone
    /\ ~errs[1].nil
    /\ \E i \in 1..Len(parameters) : parameters[i].in = ParameterInHeader
    /\ mimeJSON \in DOMAIN requestBody
    /\ Cardinality({i \in 1..6 : ~errs[i].nil}) >= 2

\* The output has no schema of its own: it is absent, or a struct without
\* JSON properties.
NoSchemaProduced(output) ==
    \/ output.isNil
    \/ /\ ~output.isSliceOrMap
       /\ ~output.embeddedSliceOrMap
       /\ \A i \in 1..Len(output.fields) : output.fields[i].tags[tagJSON] = ""

MediaTypeOf(ct) == IF ct = <<>> THEN <<>> ELSE <<ct[1]>>

\* C7: a response with a requested content type and no schema of its own
\* (output trivial or absent) advertises the content type with an empty schema.
C7_ContentTypeAdvertised ==
    (/\ ResponseDone
     /\ ret.nil
     /\ oc.RespContentType # <<>>
     /\ NoSchemaProduced(oc.Output))
    => \E k \in DOMAIN responses :
           /\ IsDecimalOf(k, oc.HTTPStatus)
           /\ MediaTypeOf(oc.RespContentType) \in DOMAIN responses[k].content
           /\ responses[k].content[MediaTypeOf(oc.RespContentType)].schema = EmptySchema

\* C8 as stated: every SetupResponse call, whatever it returns, ends with a
\* response stored under the decimal string of its status code.
C8_AlwaysStored ==
    ResponseDone => \E k \in DOMAIN responses : IsDecimalOf(k, oc.HTTPStatus)

\* C8 amended: a SetupResponse call that returns nil ends with the response
\* stored under the decimal string of its status code; a call whose body or
\* header step fails returns the error and leaves the response map as it was.
C8_StoredUnlessError ==
    [][(kind' = "response" /\ calls' = calls + 1)
        => IF ret'.nil
           THEN \E k \in DOMAIN responses' :
                    /\ IsDecimalOf(k, oc'.HTTPStatus)
                    /\ responses'[k].description # ""
                    /\ \A j \in DOMAIN responses : j # k => 
                           (j \in DOMAIN responses' /\ responses'[j] = responses[j])
           ELSE responses' = responses]_vars

\* C8 witness: a response is stored under "204", and the last call failed in
\* its header step and left the map alone.
C8_Witness ==
    /\ ResponseDone
    /\ ~ret.nil
    /\ calls = 2
    /\ DOMAIN responses = {<<"2", "0", "4">>}

\* The input has a file-upload field: a multipart.File(Header) field, whatever
\* its tags are.
HasFileField(c) ==
    \E i \in 1..Len(c.Input.fields) : c.Input.fields[i].ftype = "file"

\* The form builder sees a file upload: a multipart.File(Header) field among
\* the fields it reflects, that is a field with the formData tag when the call
\* has no form name mapping, and a field the mapping names when it has one.
SeesFileUpload(c) ==
    \E i \in 1..Len(c.Input.fields) :
        /\ c.Input.fields[i].ftype = "file"
        /\ IF DOMAIN c.ReqFormDataMapping # {}
           THEN /\ c.Input.fields[i].goName \in DOMAIN c.ReqFormDataMapping
                /\ c.ReqFormDataMapping[c.Input.fields[i].goName] \notin {"", "-"}
           ELSE c.Input.fields[i].tags[tagFormData] \notin {"", "-"}

\* The JSON builder reflects a file-upload field.
JSONSeesFileUpload(c) ==
    \E i \in 1..Len(c.Input.fields) :
        /\ c.Input.fields[i].ftype = "file"
        /\ c.Input.fields[i].tags[tagJSON] \notin {"", "-"}

\* The form step of the call is not skipped and does not fail.
FormBuilderRuns(c) ==
    /\ c.HTTPMethod \notin BodilessSpellings \/ c.Input.forceRequestBody
    /\ HasTaggedFields(c.Input, tagFormData) \/ DOMAIN c.ReqFormDataMapping # {}
    /\ \A i \in 1..Len(c.Input.fields) :
           Included(c.Input.fields[i], tagFormData, c.ReqFormDataMapping)
               => c.Input.fields[i].ftype # "failing"

\* The form step writes its entry under multipart/form-data and none under
\* x-www-form-urlencoded when `upload` holds, and under x-www-form-urlencoded
\* when it does not; the application/json entry stays.
FormStepWrites(upload) ==
    /\ IF upload
       THEN /\ mimeMultipart \in DOMAIN requestBody'
            /\ requestBody'[mimeMultipart].schema.name = <<"FormData">> \o oc.Input.name
            /\ mimeFormUrlencoded \in DOMAIN requestBody' =>
                   /\ mimeFormUrlencoded \in DOMAIN requestBody
                   /\ requestBody'[mimeFormUrlencoded] = requestBody[mimeFormUrlencoded]
       ELSE /\ mimeFormUrlencoded \in DOMAIN requestBody'
            /\ requestBody'[mimeFormUrlencoded].schema.name
                   = <<"FormData">> \o oc.Input.name
    /\ mimeJSON \in DOMAIN requestBody =>
           /\ mimeJSON \in DOMAIN requestBody'
           /\ requestBody'[mimeJSON] = requestBody[mimeJSON]

\* The JSON step writes nothing under multipart/form-data.
JSONStepNeverMultipart ==
    mimeMultipart \in DOMAIN requestBody' =>
        /\ mimeMultipart \in DOMAIN requestBody
        /\ requestBody'[mimeMultipart] = requestBody[mimeMultipart]

\* C9 as stated: the form builder writes its entry under multipart/form-data,
\* and none under x-www-form-urlencoded, when the input has a file-upload
\* field, and under x-www-form-urlencoded when it has none; the
\* application/json entry stays; the JSON builder never writes under
\* multipart/form-data.
C9_FormMimeAnyFileField ==
    [][/\ (pc = tagFormData /\ FormBuilderRuns(oc)) => FormStepWrites(HasFileField(oc))
       /\ pc = tagJSON => JSONStepNeverMultipart
      ]_vars

\* C9 amended: the form builder writes its entry under multipart/form-data,
\* and none under x-www-form-urlencoded, when a file-upload field is among the
\* fields the form reflection reads (formData tag, or named by the form
\* mapping), and under x-www-form-urlencoded otherwise, also when the input
\* has a file-upload field outside the form encoding; the application/json
\* entry stays; the JSON builder never writes under multipart/form-data, and
\* writes under application/json when it reflects a file-upload field.
C9_FormMime ==
    [][/\ (pc = tagFormData /\ FormBuilderRuns(oc)) => FormStepWrites(SeesFileUpload(oc))
       /\ pc = tagJSON =>
            /\ JSONStepNeverMultipart
            /\ (JSONSeesFileUpload(oc) /\ oc.HTTPMethod \notin BodilessSpellings) =>
                   /\ mimeJSON \in DOMAIN requestBody'
                   /\ requestBody'[mimeJSON].schema.name = oc.Input.name
      ]_vars

\* C9 witness: the form step of a call on the type whose file field is a JSON
\* property has run, after a call on the upload type: the multipart entry is
\* the upload type's form body, the urlencoded entry is this call's form body
\* and the JSON entry is this call's JSON body.
C9_Witness ==
    /\ kind = "request"
    /\ pc = "join"
    /\ HasFileField(oc) /\ ~SeesFileUpload(oc) /\ JSONSeesFileUpload(oc)
    /\ DOMAIN requestBody = {mimeJSON, mimeFormUrlencoded, mimeMultipart}
    /\ requestBody[mimeMultipart].schema.name = <<"FormData", "Upload">>
    /\ requestBody[mimeFormUrlencoded].schema.name = <<"FormData">> \o oc.Input.name
    /\ requestBody[mimeJSON].schema.name = oc.Input.name

\* C10: when the caller serialises the builds under one lock, every name of
\* the schemas map holds the schema first stored under it.
C10_LockedFirstWriteWins ==
    cMode = "locked" =>
        /\ ~cCrashed
        /\ DOMAIN cSchemas = DOMAIN cFirst
        /\ \A n \in DOMAIN cSchemas : cSchemas[n] = cFirst[n]

\* C10 witness: without a lock both builds passed the lookup for one name and
\* the later insert replaced the earlier one.
C10_Witness ==
    /\ cMode = "unlocked"
    /\ \E n \in DOMAIN cSchemas : cSchemas[n] # cFirst[n]
====
